---- MODULE Spec2Model ----
(***************************************************************************)
(* Model of the batch orchestrators of the Leopard-EM manuscript scripts:  *)
(*   scripts/python_scripts/process_all_micrographs.py             (match) *)
(*   scripts/python_scripts/process_all_micrographs_refine.py     (refine) *)
(*   scripts/python_scripts/process_all_micrographs_constrained.py         *)
(* with their configuration writers, and of scripts/export_relion.py.      *)
(* Each main() is a sequential program: discover the micrographs, filter   *)
(* them, pick the index range of this job, process the items one by one,   *)
(* print the summary.  The file system (micrograph directory, output       *)
(* directory) is shared state; what an item's auxiliary files hold and     *)
(* what the external engine does is drawn when the code reads or calls it. *)
(***************************************************************************)
EXTENDS Integers, Sequences, FiniteSets, TLC

VARIABLES
    catalog,            \* the files the glob pattern matches in --micrographs-dir
    outdir,             \* the result artifacts present in --output-dir
    stage,              \* per instance: which script it runs
    pc,                 \* per instance: position in main()
    args,               \* per instance: the parsed command line
    found,              \* per instance: sorted(glob(...)) as first computed
    unprocessed,        \* per instance: the list handed to the selection
    micrograph_files,   \* per instance: main()'s micrograph_files
    start_idx,          \* per instance: main()'s start_idx (None while unbound)
    end_idx,            \* per instance: main()'s end_idx   (None while unbound)
    idx,                \* per instance: items of the loop already handled
    successful,         \* per instance: main()'s successful
    status,             \* per instance: the exit status (None while running)
    invoked,            \* per instance: items the engine block was entered for
    results,            \* per instance: per handled item, what happened
    hazards,            \* what may go wrong while an item is processed
    error_log_file,     \* the constrained script's global log handle
    log,                \* the lines written to the durable log file
    console,            \* per instance: the lines printed
    calls,              \* log_info / log_error calls made on the open log
    \* the configuration writers (create_yaml_for_...)
    template,           \* the document of the template YAML file
    yaml_files,         \* the per-item configuration files written so far
    \* export_relion.py
    df,                 \* the particle table read from the results CSV
    shape,              \* micrograph.shape: (rows, columns) of the image
    box_size,           \* --box-size
    xpc,                \* position in create_particle_stacks
    particle_stack,     \* the crops of the micrograph being handled
    mrcs,               \* the .mrcs stack files written
    particle_df,        \* the particle rows of particles.star (None: not written)
    stdout              \* what export_relion.py printed

\* The variables of the orchestrators, of the configuration writers and of
\* the export.
runVars == <<catalog, outdir, stage, pc, args, found, unprocessed,
             micrograph_files, start_idx, end_idx, idx, successful, status,
             invoked, results, hazards, error_log_file, log, console, calls>>
cfgVars == <<template, yaml_files>>
exportVars == <<df, shape, box_size, xpc, particle_stack, mrcs, particle_df,
                stdout>>

vars == <<runVars, cfgVars, exportVars>>

----------------------------------------------------------------------------
(* Bounds of the model. *)
MaxN == 10          \* longest item list of the partitioner specification
MaxNeg == 2         \* job and range indices go down to -MaxNeg
MaxJob == 5         \* largest --job-idx
MaxPerJob == 3      \* largest --jobs-per-array
RunNeg == 1         \* the orchestrator runs: indices go down to -RunNeg
RunJob == 2         \* the orchestrator runs: largest --job-idx
RunPerJob == 2      \* the orchestrator runs: largest --jobs-per-array
MaxIdx == 4         \* the orchestrator runs: largest --start-idx / --end-idx

----------------------------------------------------------------------------
(* Python values. *)

\* None; an optional integer is <<>> (None) or <<v>>.
None == <<>>
Some(v) == <<v>>
Val(o) == o[1]
Opt(S) == {None} \cup {Some(v) : v \in S}

Min(a, b) == IF a <= b THEN a ELSE b
Max(a, b) == IF a >= b THEN a ELSE b

\* A slice bound as list[lo:hi] normalises it: a negative bound counts from
\* the end of the list, and the result is clamped to 0..len.
SliceBound(b, n) == IF b < 0 THEN Max(b + n, 0) ELSE Min(b, n)

\* The 1-based positions of L that L[s:e] selects.
SlicePositions(L, s, e) ==
    { k \in 1..Len(L) : SliceBound(s, Len(L)) < k /\ k <= SliceBound(e, Len(L)) }

\* L[s:e]
PySlice(L, s, e) ==
    LET lo == SliceBound(s, Len(L))
        hi == SliceBound(e, Len(L))
    IN  IF lo < hi THEN SubSeq(L, lo + 1, hi) ELSE <<>>

----------------------------------------------------------------------------
(* The job partitioner: main(), "Determine which micrographs to process". *)

ArrayMode(a) == a.job_idx # None /\ a.jobs_per_array # None

\* Mutant of RangeMode: "and" where the code says "or".
RangeMode_Both(a) == ~ArrayMode(a) /\ (a.start_idx # None /\ a.end_idx # None)

RangeMode(a) == ~ArrayMode(a) /\ (a.start_idx # None \/ a.end_idx # None)

\* Mutant of JobStart: array jobs counted from 0 (the first jobs_per_array
\* items are in no job's range).
JobStart_FromZero(a, n) ==
    IF ArrayMode(a) THEN Some(Val(a.job_idx) * Val(a.jobs_per_array))
    ELSE IF RangeMode(a)
         THEN (IF a.start_idx # None THEN a.start_idx ELSE Some(0))
         ELSE None

\* start_idx as main() binds it for a list of n items (None: left unbound).
JobStart(a, n) ==
    IF ArrayMode(a) THEN Some((Val(a.job_idx) - 1) * Val(a.jobs_per_array))
    ELSE IF RangeMode(a)
         THEN (IF a.start_idx # None THEN a.start_idx ELSE Some(0))
         ELSE None

\* Mutant of JobEnd: the array-job slice takes its end index too (one item
\* more than jobs_per_array).
JobEnd_Inclusive(a, n) ==
    IF ArrayMode(a)
    THEN Some(Min(Val(JobStart(a, n)) + Val(a.jobs_per_array) + 1, n))
    ELSE IF RangeMode(a)
         THEN (IF a.end_idx # None THEN a.end_idx ELSE Some(n))
         ELSE None

\* Mutant of JobEnd: the end of an array-job slice is not clamped to the list.
JobEnd_Unclamped(a, n) ==
    IF ArrayMode(a)
    THEN Some(Val(JobStart(a, n)) + Val(a.jobs_per_array))
    ELSE IF RangeMode(a)
         THEN (IF a.end_idx # None THEN a.end_idx ELSE Some(n))
         ELSE None

\* end_idx as main() binds it for a list of n items (None: left unbound).
JobEnd(a, n) ==
    IF ArrayMode(a)
    THEN Some(Min(Val(JobStart(a, n)) + Val(a.jobs_per_array), n))
    ELSE IF RangeMode(a)
         THEN (IF a.end_idx # None THEN a.end_idx ELSE Some(n))
         ELSE None

\* micrograph_files after the selection.
SelectFiles(L, a) ==
    IF ArrayMode(a) \/ RangeMode(a)
    THEN PySlice(L, Val(JobStart(a, Len(L))), Val(JobEnd(a, Len(L))))
    ELSE L

----------------------------------------------------------------------------
(* File names.  A micrograph file name is the list of its dot-separated     *)
(* parts, with what the two regular expressions capture from it:            *)
(* num for r'xenon_(\d+)_(\d+)_' and nid for r'xenon_(\d+)_'.               *)

FileName(parts, num, nid) == [parts |-> parts, num |-> num, nid |-> nid]

\* The names a micrograph directory may hold, in lexicographic order:
\*   img_DWS.mrc, xenon_1_2_0.0_DWS.mrc, xenon_1_2_0.5_DWS.mrc
AllNames ==
    << FileName(<<"img_DWS", "mrc">>, None, None),
       FileName(<<"xenon_1_2_0", "0_DWS", "mrc">>, Some("1_2"), Some(1)),
       FileName(<<"xenon_1_2_0", "5_DWS", "mrc">>, Some("1_2"), Some(1)) >>

NameSet == { AllNames[k] : k \in 1..Len(AllNames) }

\* sorted(glob.glob(pattern)): the matching names in lexicographic order.
Sorted(S) == SelectSeq(AllNames, LAMBDA f : f \in S)

\* os.path.splitext(name)[0]: the name without its last extension.
SplitExt(f) ==
    IF Len(f.parts) > 1 THEN SubSeq(f.parts, 1, Len(f.parts) - 1) ELSE f.parts

\* name.split('.')[0]: the name up to its first dot.
SplitDot(f) == <<f.parts[1]>>

\* extract_micrograph_number of the match and constrained scripts.
extract_micrograph_number(f) == f.num

\* extract_numeric_micrograph_id of the refine and constrained scripts.
extract_numeric_micrograph_id(f) == f.nid

\* A file of the output directory: f"{stem}{suffix}".
Artifact(stem, suffix) == [stem |-> stem, suffix |-> suffix]

\* Mutant of is_already_processed: the stem is taken up to the first dot.
is_already_processed_FirstDot(f, dir) ==
    Artifact(SplitDot(f), "_results.csv") \in dir

\* is_already_processed(micrograph_path, output_dir), with dir the files of
\* output_dir.
is_already_processed(f, dir) ==
    Artifact(SplitExt(f), "_results.csv") \in dir

\* The resume filter of the match script's main(): the loop that appends the
\* items not yet processed, in order.
RECURSIVE unprocessed_micrographs(_, _)
unprocessed_micrographs(L, dir) ==
    IF L = <<>> THEN <<>>
    ELSE LET rest == unprocessed_micrographs(Tail(L), dir)
         IN  IF ~is_already_processed(Head(L), dir)
             THEN <<Head(L)>> \o rest
             ELSE rest

----------------------------------------------------------------------------
(* process_micrograph of the match script.  What the calibration file      *)
(* holds, whether the configuration can be derived and what the engine     *)
(* does are drawn per item: fault names the first thing that goes wrong.   *)

MatchFaults ==
    { "none",            \* everything works
      "ctf_absent",      \* no calibration file for the item
      "ctf_nodata",      \* no line of the file has five fields
      "ctf_unparsable",  \* a data line whose field 1, 2 or 3 is not a number
      "yaml_raises",     \* the template cannot be read or lacks a key
      "engine_raises",   \* the engine block raises an Exception
      "csv_write_fails", \* df.to_csv raises after it has opened the file
      "interrupt" }      \* the operator interrupts the engine call

\* What a function printed or logged, in order.
\* A message: its text and the two numbers an f-string puts in it
\* (0 where it has none).
Msg(text, a, b) == [text |-> text, a |-> a, b |-> b]
Printed(text) == [fn |-> "print", msg |-> Msg(text, 0, 0), also_print |-> TRUE]
PrintedN(text, a, b) == [fn |-> "print", msg |-> Msg(text, a, b), also_print |-> TRUE]
LogInfo(text) == [fn |-> "log_info", msg |-> Msg(text, 0, 0), also_print |-> TRUE]
LogInfoN(text, a, b) == [fn |-> "log_info", msg |-> Msg(text, a, b), also_print |-> TRUE]
LogInfoQuiet(text) == [fn |-> "log_info", msg |-> Msg(text, 0, 0), also_print |-> FALSE]
LogError(text) == [fn |-> "log_error", msg |-> Msg(text, 0, 0), also_print |-> TRUE]

\* What happened to an item: ret is "True"/"False" (the return value),
\* "raise" (an exception left the function) or "interrupt"
\* (KeyboardInterrupt left it); why: the reason; engine: the engine's manager
\* was built from the item's configuration; wrote: the files written to the
\* output directory; events: what was printed and logged.
Outcome(ret, why, engine, wrote, events) ==
    [ret |-> ret, why |-> why, engine |-> engine, wrote |-> wrote,
     events |-> events]

process_micrograph(f, fault) ==
    IF extract_micrograph_number(f) = None
    THEN Outcome("False", "no_number", FALSE, {},
                 <<Printed("Could not extract micrograph number")>>)
    ELSE IF fault = "ctf_absent"
    THEN Outcome("False", fault, FALSE, {}, <<Printed("CTF file not found")>>)
    ELSE IF fault = "ctf_unparsable"
         \* get_ctf_parameters: float(parts[k]) raises ValueError, outside any try
    THEN Outcome("raise", fault, FALSE, {}, <<>>)
    ELSE IF fault = "ctf_nodata"
         \* get_ctf_parameters returns None, None, None
    THEN Outcome("False", fault, FALSE, {},
                 <<Printed("Could not extract defocus parameters")>>)
    ELSE IF fault = "yaml_raises"
         \* create_yaml_for_micrograph is called outside the try
    THEN Outcome("raise", fault, FALSE, {}, <<>>)
    ELSE IF fault = "engine_raises"
    THEN Outcome("False", fault, TRUE,
                 {Artifact(SplitExt(f), "_config.yaml")},
                 <<Printed("Running match template"), Printed("Error processing")>>)
    ELSE IF fault = "csv_write_fails"
         \* df.to_csv(csv_path) writes in place: the file it opened stays,
         \* with part of the table or none of it
    THEN Outcome("False", fault, TRUE,
                 {Artifact(SplitExt(f), "_config.yaml"),
                  Artifact(SplitExt(f), "_results.csv")},
                 <<Printed("Running match template"), Printed("Error processing")>>)
    ELSE IF fault = "interrupt"
         \* KeyboardInterrupt is not an Exception: the except clause lets it go
    THEN Outcome("interrupt", fault, TRUE,
                 {Artifact(SplitExt(f), "_config.yaml")},
                 <<Printed("Running match template")>>)
    ELSE Outcome("True", "ok", TRUE,
                 {Artifact(SplitExt(f), "_config.yaml"),
                  Artifact(SplitExt(f), "_results.csv")},
                 <<Printed("Running match template"),
                   Printed("Successfully processed")>>)

----------------------------------------------------------------------------
(* process_micrograph_refinement of the refine script. *)

RefineFaults ==
    { "none",
      "csv_absent",      \* the match results table does not exist
      "csv_unreadable",  \* pd.read_csv raises (a zero-byte or garbled file)
      "csv_empty",       \* the table has a header and no row
      "yaml_raises",
      "engine_raises",
      "interrupt" }

\* extract_micrograph_number of the refine script: the name without extension.
extract_micrograph_number_refine(f) == SplitExt(f)

process_micrograph_refinement(f, fault) ==
    IF extract_micrograph_number_refine(f) = <<>>
    THEN Outcome("False", "no_number", FALSE, {},
                 <<Printed("Could not extract micrograph number")>>)
    ELSE IF fault = "csv_absent"
    THEN Outcome("False", fault, FALSE, {},
                 <<Printed("Match template results not found")>>)
    ELSE IF fault = "csv_unreadable"
         \* pd.read_csv is called outside any try
    THEN Outcome("raise", fault, FALSE, {}, <<>>)
    ELSE IF fault = "csv_empty"
    THEN Outcome("False", fault, FALSE, {}, <<Printed("No matches to refine")>>)
    ELSE IF fault = "yaml_raises"
         \* create_yaml_for_refinement is called outside the try
    THEN Outcome("raise", fault, FALSE, {}, <<>>)
    ELSE IF fault = "engine_raises"
    THEN Outcome("False", fault, TRUE,
                 {Artifact(SplitExt(f), "_refine_config.yaml")},
                 <<Printed("Running refine template"),
                   Printed("Error refining matches")>>)
    ELSE IF fault = "interrupt"
    THEN Outcome("interrupt", fault, TRUE,
                 {Artifact(SplitExt(f), "_refine_config.yaml")},
                 <<Printed("Running refine template")>>)
    ELSE Outcome("True", "ok", TRUE,
                 {Artifact(SplitExt(f), "_refine_config.yaml"),
                  Artifact(SplitExt(f), "_refined_results.csv")},
                 <<Printed("Running refine template"),
                   Printed("Refinement wall time"),
                   Printed("Successfully refined matches")>>)

----------------------------------------------------------------------------
(* process_micrograph_constrained_search of the constrained script. *)

ConsFaults ==
    { "none",
      "large_absent",     \* the large-particle table does not exist
      "small_absent",     \* the small-particle table does not exist
      "large_unreadable", \* pd.read_csv(large) raises, before the try
      "large_empty",      \* the large-particle table has no row
      "yaml_raises",      \* create_yaml_for_constrained_search raises
      "volume_absent",    \* FileNotFoundError raised by the pre-flight checks
      "small_empty",      \* ValueError: the small table is a zero-byte file
      "small_no_rows",    \* the small table has its header line and no row
      "import_error",     \* ImportError while the manager is built
      "manager_raises",   \* another Exception while the manager is built
      "not_writable",     \* PermissionError: output directory not writable
      "engine_raises",    \* another Exception from run_constrained_search
      "no_output",        \* the engine returns without writing its table
      "interrupt" }       \* the operator interrupts the engine call

\* The log calls of the try block, up to the call named.
ConsPreflight ==
    << LogInfo("Running constrained search"),
       LogInfoQuiet("DEBUG: Checking file existence and validity") >>
ConsTablesRead ==
    ConsPreflight \o
    << LogInfoQuiet("DEBUG: Large results CSV rows") >>
ConsBeforeManager ==
    ConsTablesRead \o
    << LogInfoQuiet("DEBUG: Small results CSV rows"),
       LogInfoQuiet("DEBUG: YAML config loaded successfully"),
       LogInfoQuiet("DEBUG: YAML keys"),
       LogInfoQuiet("DEBUG: GPU check"),
       LogInfoQuiet("DEBUG: Creating ConstrainedSearchManager from YAML") >>
ConsBeforeAccess ==
    ConsBeforeManager \o
    << LogInfoQuiet("DEBUG: ConstrainedSearchManager created successfully"),
       LogInfoQuiet("DEBUG: Output CSV path") >>
ConsBeforeRun ==
    ConsBeforeAccess \o
    << LogInfoQuiet("DEBUG: Starting constrained search") >>

\* The "except Exception" handler up to the line that reads
\* constrained_output_csv, and its last two lines.
ConsUnexpectedHead ==
    << LogError("UNEXPECTED ERROR"),
       LogError("  Error type"),
       LogError("  Error message"),
       LogError("  Full traceback:"),
       LogError("    traceback line"),
       LogError("  Debug information:"),
       LogError("    - Micrograph path"),
       LogError("    - Large results CSV"),
       LogError("    - Small results CSV"),
       LogError("    - Template YAML"),
       LogError("    - Custom YAML"),
       LogError("    - Template volume"),
       LogError("    - Output directory"),
       LogError("    - GPU IDs"),
       LogError("    - Batch size"),
       LogError("    - False positives") >>
ConsUnexpectedTail ==
    << LogError("    - Output CSV path"),
       LogError("  ==========") >>

process_micrograph_constrained_search(f, fault) ==
    LET cfg == Artifact(SplitExt(f), "_constrained_config.yaml")
        csv == Artifact(SplitExt(f), "_constrained_results.csv")
    IN
    IF extract_micrograph_number(f) = None
    THEN Outcome("False", "no_number", FALSE, {},
                 <<Printed("Could not extract micrograph number")>>)
    ELSE IF fault = "large_absent"
    THEN Outcome("False", fault, FALSE, {},
                 <<Printed("Large particle results not found")>>)
    ELSE IF fault = "small_absent"
    THEN Outcome("False", fault, FALSE, {},
                 <<Printed("Small particle results not found")>>)
    ELSE IF fault = "large_unreadable"
         \* pd.read_csv(large_results_csv) is called outside the try
    THEN Outcome("raise", fault, FALSE, {}, <<>>)
    ELSE IF fault = "large_empty"
    THEN Outcome("False", fault, FALSE, {},
                 <<Printed("No large particle matches")>>)
    ELSE IF fault = "yaml_raises"
         \* create_yaml_for_constrained_search is called outside the try
    THEN Outcome("raise", fault, FALSE, {}, <<>>)
    ELSE IF fault = "volume_absent"
    THEN Outcome("False", fault, FALSE, {cfg},
                 ConsPreflight \o
                 << LogError("FILE NOT FOUND ERROR"),
                    LogError("  message"),
                    LogError("  Current working directory") >>)
    ELSE IF fault = "small_empty"
    THEN Outcome("False", fault, FALSE, {cfg},
                 ConsTablesRead \o
                 << LogError("VALUE ERROR"), LogError("  message") >>)
    ELSE IF fault = "import_error"
    THEN Outcome("False", fault, TRUE, {cfg},
                 ConsBeforeManager \o
                 << LogError("IMPORT ERROR"),
                    LogError("  message"),
                    LogError("  This might indicate missing dependencies") >>)
    ELSE IF fault = "manager_raises"
         \* constrained_output_csv is not bound yet: the handler's line that
         \* formats it raises UnboundLocalError, which leaves the function
    THEN Outcome("raise", fault, TRUE, {cfg},
                 ConsBeforeManager \o ConsUnexpectedHead)
    ELSE IF fault = "not_writable"
    THEN Outcome("False", fault, TRUE, {cfg},
                 ConsBeforeAccess \o
                 << LogError("PERMISSION ERROR"), LogError("  message") >>)
    ELSE IF fault = "engine_raises"
    THEN Outcome("False", fault, TRUE, {cfg},
                 ConsBeforeRun \o ConsUnexpectedHead \o ConsUnexpectedTail)
    ELSE IF fault = "interrupt"
    THEN Outcome("interrupt", fault, TRUE, {cfg}, ConsBeforeRun)
    ELSE IF fault = "small_no_rows"
         \* read with header=None the header line is a row: len(small_df) is 1,
         \* the emptiness check passes and the engine runs
    THEN Outcome("True", fault, TRUE, {cfg, csv},
                 ConsBeforeRun \o
                 << LogInfo("Constrained search wall time"),
                    LogInfoQuiet("DEBUG: Output CSV created"),
                    LogInfoQuiet("Successfully completed constrained search") >>)
    ELSE IF fault = "no_output"
    THEN Outcome("True", fault, TRUE, {cfg},
                 ConsBeforeRun \o
                 << LogInfo("Constrained search wall time"),
                    LogInfo("WARNING: Output CSV was not created"),
                    LogInfoQuiet("Successfully completed constrained search") >>)
    ELSE Outcome("True", "ok", TRUE, {cfg, csv},
                 ConsBeforeRun \o
                 << LogInfo("Constrained search wall time"),
                    LogInfoQuiet("DEBUG: Output CSV created"),
                    LogInfoQuiet("Successfully completed constrained search") >>)

----------------------------------------------------------------------------
(* The two sinks: print() and the durable log behind error_log_file. *)

\* The line log_info / log_error format: a timestamp and the message.
LogLine(e) ==
    [stamp |-> "Y-m-d H:M:S",
     level |-> IF e.fn = "log_info" THEN "INFO: " ELSE "",
     msg |-> e.msg]

\* What the events add to the console.
RECURSIVE ToConsole(_)
ToConsole(events) ==
    IF events = <<>> THEN <<>>
    ELSE (IF Head(events).also_print THEN <<Head(events).msg>> ELSE <<>>)
         \o ToConsole(Tail(events))

\* Mutant of ToLog: a message that is not printed is not written either.
RECURSIVE ToLog_PrintedOnly(_, _)
ToLog_PrintedOnly(events, handle) ==
    IF events = <<>> THEN <<>>
    ELSE (IF Head(events).fn # "print" /\ handle = "open" /\ Head(events).also_print
          THEN <<LogLine(Head(events))>> ELSE <<>>)
         \o ToLog_PrintedOnly(Tail(events), handle)

\* What the events add to the log file while handle is the open file:
\* each log_info / log_error writes one line and flushes it.
RECURSIVE ToLog(_, _)
ToLog(events, handle) ==
    IF events = <<>> THEN <<>>
    ELSE (IF Head(events).fn # "print" /\ handle = "open"
          THEN <<LogLine(Head(events))>> ELSE <<>>)
         \o ToLog(Tail(events), handle)

----------------------------------------------------------------------------
(* main() of the three scripts, one launched instance per element of Procs. *)

Procs == {1, 2}

Stages == {"match", "refine", "constrained"}

\* Every instance in the same condition a.
Idle(a) == [p \in Procs |-> a]

\* The configuration writers and the export are not part of these runs.
NoConfig == template = None /\ yaml_files = <<>>
NoExport ==
    /\ df = <<>> /\ shape = <<>> /\ box_size = 0 /\ xpc = "off"
    /\ particle_stack = <<>> /\ mrcs = <<>> /\ particle_df = None
    /\ stdout = <<>>

\* sys.exit(main()) after an uncaught exception, and after an uncaught
\* KeyboardInterrupt.
ExitTraceback == Some(1)
ExitInterrupted == Some(128 + 2)

\* The suffix of the table a stage leaves per item in --output-dir.
TerminalSuffix(st) ==
    CASE st = "match" -> "_results.csv"
      [] st = "refine" -> "_refined_results.csv"
      [] OTHER -> "_constrained_results.csv"

\* How many of the events are log_info / log_error calls that reach the
\* file handle: "if error_log_file:" holds for a file object, open or closed.
LogCalls(events, handle) ==
    IF handle # "None"
    THEN Cardinality({k \in 1..Len(events) : events[k].fn # "print"})
    ELSE 0

\* print / log_info / log_error calls of instance p.
Emit(p, events) ==
    /\ console' = [console EXCEPT ![p] = @ \o ToConsole(events)]
    /\ log' = log \o ToLog(events, error_log_file)
    /\ calls' = calls + LogCalls(events, error_log_file)

\* constrained main(): open the durable log and write its header.
OpenLog(p) ==
    /\ stage[p] = "constrained"
    /\ pc[p] = "start"
    /\ \E opened \in BOOLEAN :
          IF opened
          THEN LET header == << LogInfo("Starting constrained search processing"),
                                LogInfo("Error log file"),
                                LogInfo("Output directory"),
                                LogInfo("GPU IDs"),
                                LogInfo("Batch size"),
                                LogInfo("False positives"),
                                LogInfo("==========") >>
               IN  /\ error_log_file' = "open"
                   \* mode 'w': the file starts empty
                   /\ log' = ToLog(header, "open")
                   /\ calls' = LogCalls(header, "open")
                   /\ console' = [console EXCEPT ![p] = @ \o ToConsole(header)]
                   /\ pc' = [pc EXCEPT ![p] = "discover"]
                   /\ UNCHANGED status
          ELSE /\ console' = [console EXCEPT ![p] =
                                 Append(@, Msg("ERROR: Could not create error log file", 0, 0))]
               /\ status' = [status EXCEPT ![p] = Some(1)]
               /\ pc' = [pc EXCEPT ![p] = "done"]
               /\ UNCHANGED <<error_log_file, log, calls>>
    /\ UNCHANGED <<cfgVars, exportVars, catalog, outdir, stage, args, hazards, found, unprocessed,
                   micrograph_files, start_idx, end_idx, idx, successful,
                   invoked, results>>

\* main(): "Get list of micrograph files".
Discover(p) ==
    /\ pc[p] = "discover"
    /\ found' = [found EXCEPT ![p] = Sorted(catalog)]
    /\ micrograph_files' = [micrograph_files EXCEPT ![p] = Sorted(catalog)]
    /\ IF Sorted(catalog) = <<>>
       THEN /\ Emit(p, <<Printed("No micrograph files found matching pattern")>>)
            /\ status' = [status EXCEPT ![p] = Some(1)]
            /\ pc' = [pc EXCEPT ![p] = "done"]
       ELSE /\ Emit(p, <<PrintedN("Found micrograph files", Cardinality(catalog), 0)>>)
            /\ pc' = [pc EXCEPT ![p] = "filter"]
            /\ UNCHANGED status
    /\ UNCHANGED <<cfgVars, exportVars, catalog, outdir, stage, args, hazards, unprocessed,
                   start_idx, end_idx, idx, successful, invoked, results,
                   error_log_file>>

\* match main(): "Filter out micrographs that have already been processed".
ResumeFilter(p) ==
    /\ stage[p] = "match"
    /\ pc[p] = "filter"
    /\ LET L == unprocessed_micrographs(micrograph_files[p], outdir)
       IN  /\ unprocessed' = [unprocessed EXCEPT ![p] = L]
           /\ micrograph_files' = [micrograph_files EXCEPT ![p] = L]
           /\ IF L = <<>>
              THEN /\ Emit(p, << PrintedN("Found unprocessed micrographs",
                                          0, Len(micrograph_files[p])),
                                 Printed("No unprocessed micrographs to process. Exiting.") >>)
                   /\ status' = [status EXCEPT ![p] = Some(0)]
                   /\ pc' = [pc EXCEPT ![p] = "done"]
              ELSE /\ Emit(p, << PrintedN("Found unprocessed micrographs",
                                          Len(L), Len(micrograph_files[p])) >>)
                   /\ pc' = [pc EXCEPT ![p] = "partition"]
                   /\ UNCHANGED status
    /\ UNCHANGED <<cfgVars, exportVars, catalog, outdir, stage, args, hazards, found, start_idx,
                   end_idx, idx, successful, invoked, results, error_log_file>>

\* refine / constrained main(): "Filter by specific micrograph numbers".
FilterNumbers(p) ==
    /\ stage[p] \in {"refine", "constrained"}
    /\ pc[p] = "filter"
    /\ LET given == args[p].filter_numbers # None
           L == IF given
                THEN SelectSeq(micrograph_files[p],
                               LAMBDA f : /\ extract_numeric_micrograph_id(f) # None
                                          /\ Val(extract_numeric_micrograph_id(f))
                                                 \in Val(args[p].filter_numbers))
                ELSE micrograph_files[p]
           events == IF ~given THEN <<>>
                     ELSE IF stage[p] = "constrained"
                     THEN << Printed("Filtering for micrograph numbers"),
                             LogInfo("Filtering for micrograph numbers"),
                             PrintedN("After filtering", Len(L), 0),
                             LogInfoN("After filtering", Len(L), 0) >>
                     ELSE << Printed("Filtering for micrograph numbers"),
                             PrintedN("After filtering", Len(L), 0) >>
       IN  /\ unprocessed' = [unprocessed EXCEPT ![p] = L]
           /\ micrograph_files' = [micrograph_files EXCEPT ![p] = L]
           /\ Emit(p, events)
    /\ pc' = [pc EXCEPT ![p] = "partition"]
    /\ UNCHANGED <<cfgVars, exportVars, catalog, outdir, stage, args, hazards, found, start_idx,
                   end_idx, idx, successful, status, invoked, results,
                   error_log_file>>

\* main(): "Determine which micrographs to process".
Partition(p) ==
    /\ pc[p] = "partition"
    /\ start_idx' = [start_idx EXCEPT ![p] = JobStart(args[p], Len(micrograph_files[p]))]
    /\ end_idx' = [end_idx EXCEPT ![p] = JobEnd(args[p], Len(micrograph_files[p]))]
    /\ micrograph_files' =
           [micrograph_files EXCEPT ![p] = SelectFiles(micrograph_files[p], args[p])]
    /\ Emit(p, IF ArrayMode(args[p]) \/ RangeMode(args[p])
               THEN <<Printed("Processing micrographs")>>
               ELSE <<>>)
    /\ pc' = [pc EXCEPT ![p] = "loop"]
    /\ UNCHANGED <<cfgVars, exportVars, catalog, outdir, stage, args, hazards, found, unprocessed, idx,
                   successful, status, invoked, results, error_log_file>>

\* Mutant of ItemDone: every handled item is counted as a success.
ItemDone_CountsAll(p, f, r) ==
    /\ outdir' = outdir \cup r.wrote
    /\ invoked' = [invoked EXCEPT ![p] = IF r.engine THEN @ \cup {f} ELSE @]
    /\ results' = [results EXCEPT ![p] =
                      Append(@, [item |-> f, why |-> r.why, ret |-> r.ret])]
    /\ successful' = [successful EXCEPT ![p] = @ + 1]
    /\ idx' = [idx EXCEPT ![p] = IF r.ret \in {"True", "False"} THEN @ + 1 ELSE @]

\* The bookkeeping every script's loop body shares: r is what processing
\* item f did.
ItemDone(p, f, r) ==
    /\ outdir' = outdir \cup r.wrote
    /\ invoked' = [invoked EXCEPT ![p] = IF r.engine THEN @ \cup {f} ELSE @]
    /\ results' = [results EXCEPT ![p] =
                      Append(@, [item |-> f, why |-> r.why, ret |-> r.ret])]
    /\ successful' = [successful EXCEPT ![p] = IF r.ret = "True" THEN @ + 1 ELSE @]
    /\ idx' = [idx EXCEPT ![p] = IF r.ret \in {"True", "False"} THEN @ + 1 ELSE @]

\* match / refine main(): one pass of the for loop.  An exception that leaves
\* process_micrograph leaves main() too: the interpreter prints the traceback
\* and exits.
LoopItem(p, r) ==
    LET f == micrograph_files[p][idx[p] + 1]
    IN  /\ ItemDone(p, f, r)
        /\ Emit(p, <<PrintedN("Processing", idx[p] + 1, Len(micrograph_files[p]))>>
                   \o r.events)
        /\ pc' = [pc EXCEPT ![p] = IF r.ret \in {"True", "False"} THEN "loop" ELSE "done"]
        /\ status' = [status EXCEPT ![p] =
                         CASE r.ret = "raise" -> ExitTraceback
                           [] r.ret = "interrupt" -> ExitInterrupted
                           [] OTHER -> @]
        /\ UNCHANGED <<cfgVars, exportVars, catalog, stage, args, hazards, found, unprocessed,
                       micrograph_files, start_idx, end_idx, error_log_file>>

\* match main() with a reservation the program does not have: an item the
\* other instance has handed to the engine is not processed.
MatchItem_Reserved(p) ==
    /\ stage[p] = "match"
    /\ pc[p] = "loop"
    /\ idx[p] < Len(micrograph_files[p])
    /\ \A q \in Procs \ {p} : micrograph_files[p][idx[p] + 1] \notin invoked[q]
    /\ \E fault \in MatchFaults \cap hazards :
          LoopItem(p, process_micrograph(micrograph_files[p][idx[p] + 1], fault))

MatchItem(p) ==
    /\ stage[p] = "match"
    /\ pc[p] = "loop"
    /\ idx[p] < Len(micrograph_files[p])
    /\ \E fault \in MatchFaults \cap hazards :
          LoopItem(p, process_micrograph(micrograph_files[p][idx[p] + 1], fault))

RefineItem(p) ==
    /\ stage[p] = "refine"
    /\ pc[p] = "loop"
    /\ idx[p] < Len(micrograph_files[p])
    /\ \E fault \in RefineFaults \cap hazards :
          LoopItem(p, process_micrograph_refinement(micrograph_files[p][idx[p] + 1], fault))

\* constrained main(): one pass of the for loop inside try / except / finally.
ConsItem(p) ==
    /\ stage[p] = "constrained"
    /\ pc[p] = "loop"
    /\ idx[p] < Len(micrograph_files[p])
    /\ \E fault \in ConsFaults \cap hazards :
          LET f == micrograph_files[p][idx[p] + 1]
              r == process_micrograph_constrained_search(f, fault)
              before == << PrintedN("Processing", idx[p] + 1, Len(micrograph_files[p])),
                           LogInfoN("Processing", idx[p] + 1, Len(micrograph_files[p])),
                           LogInfo("  Large results CSV"),
                           LogInfo("  Small results CSV") >>
              after == CASE r.ret = "True" ->
                              << LogInfo("SUCCESS"), LogInfo("----------") >>
                         [] r.ret = "False" ->
                              << LogInfo("FAILED"), LogInfo("----------") >>
                         [] r.ret = "interrupt" ->
                              << LogError("Processing interrupted by user (Ctrl+C)"),
                                 Printed("Processing interrupted by user (Ctrl+C)") >>
                         [] OTHER ->
                              << LogError("Unexpected error during processing"),
                                 Printed("Unexpected error during processing") >>
          IN  /\ ItemDone(p, f, r)
              /\ Emit(p, before \o r.events \o after)
              /\ IF r.ret \in {"True", "False"}
                 THEN UNCHANGED <<pc, error_log_file>>
                 ELSE \* except ...: finally: error_log_file.close()
                      /\ error_log_file' = "closed"
                      /\ pc' = [pc EXCEPT ![p] = "summary"]
    /\ UNCHANGED <<cfgVars, exportVars, catalog, stage, args, hazards, found, unprocessed,
                   micrograph_files, start_idx, end_idx, status>>

\* main(): the for loop is exhausted (constrained: the finally clause runs).
EndLoop(p) ==
    /\ pc[p] = "loop"
    /\ idx[p] = Len(micrograph_files[p])
    /\ error_log_file' = IF stage[p] = "constrained" /\ error_log_file # "None"
                         THEN "closed" ELSE error_log_file
    /\ pc' = [pc EXCEPT ![p] = "summary"]
    /\ UNCHANGED <<cfgVars, exportVars, catalog, outdir, stage, args, hazards, found, unprocessed,
                   micrograph_files, start_idx, end_idx, idx, successful, status,
                   invoked, results, log, console, calls>>

\* The summary line main() ends with; N and M are the two counts.
SummaryText(st) ==
    CASE st = "match" -> "Successfully processed N/M micrographs"
      [] st = "refine" -> "Successfully refined matches for N/M micrographs"
      [] OTHER -> "Successfully completed constrained search for N/M micrographs"

\* Mutant of Summary: the final summary is logged without asking whether
\* the log file is still open.
Summary_Unguarded(p) ==
    /\ pc[p] = "summary"
    /\ LET n == Len(micrograph_files[p])
           printed == IF stage[p] = "constrained"
                      THEN << PrintedN(SummaryText(stage[p]), successful[p], n),
                              Printed("Detailed error log saved to") >>
                      ELSE << PrintedN(SummaryText(stage[p]), successful[p], n) >>
           logged == IF stage[p] = "constrained"
                     THEN << LogInfo("Processing complete!"),
                             LogInfoN(SummaryText(stage[p]), successful[p], n),
                             LogInfoN("Failed", n - successful[p], n),
                             LogInfo("Finished at") >>
                     ELSE <<>>
       IN  Emit(p, logged \o printed)
    /\ status' = [status EXCEPT ![p] = Some(0)]
    /\ pc' = [pc EXCEPT ![p] = "done"]
    /\ UNCHANGED <<cfgVars, exportVars, catalog, outdir, stage, args, hazards, found, unprocessed,
                   micrograph_files, start_idx, end_idx, idx, successful,
                   invoked, results, error_log_file>>

\* main(): the final summary and "return 0".
Summary(p) ==
    /\ pc[p] = "summary"
    /\ LET n == Len(micrograph_files[p])
           printed == IF stage[p] = "constrained"
                      THEN << PrintedN(SummaryText(stage[p]), successful[p], n),
                              Printed("Detailed error log saved to") >>
                      ELSE << PrintedN(SummaryText(stage[p]), successful[p], n) >>
           \* "Log final summary (only if log file is still open)"
           logged == IF stage[p] = "constrained" /\ error_log_file = "open"
                     THEN << LogInfo("Processing complete!"),
                             LogInfoN(SummaryText(stage[p]), successful[p], n),
                             LogInfoN("Failed", n - successful[p], n),
                             LogInfo("Finished at") >>
                     ELSE <<>>
       IN  Emit(p, logged \o printed)
    /\ status' = [status EXCEPT ![p] = Some(0)]
    /\ pc' = [pc EXCEPT ![p] = "done"]
    /\ UNCHANGED <<cfgVars, exportVars, catalog, outdir, stage, args, hazards, found, unprocessed,
                   micrograph_files, start_idx, end_idx, idx, successful,
                   invoked, results, error_log_file>>

----------------------------------------------------------------------------
(* The configuration writers: create_yaml_for_micrograph (match),          *)
(* create_yaml_for_refinement and create_yaml_for_constrained_search.      *)
(* A YAML document is a record; a path is a directory and a file name; the *)
(* file name of an output path is the list of the pieces that "_" joins.   *)

MaxWrites == 2      \* how often one configuration file is written

Path(dir, name) == [dir |-> dir, name |-> name]

\* os.path.dirname / os.path.basename
dirname(path) == path.dir
basename(path) == path.name

\* --output-dir of the runs, and another directory a template may name.
OutputDir == "all_results"
TemplateDir == "template_results"

\* The keys of the match template's match_template_result group.
ResultKeys == {"allow_file_overwrite", "mip_path", "scaled_mip_path"}

\* The file each output key names in the template.
TemplateFile(key) ==
    IF key = "mip_path" THEN <<"output_mip.mrc">> ELSE <<"output_scaled_mip.mrc">>

\* The template documents of the three stages (yaml.safe_load of
\* --template-yaml).
MatchTemplates ==
    { [kind |-> "match",
       micrograph_path |-> None,
       optics_group |-> [defocus_u |-> 0, defocus_v |-> 0, astigmatism_angle |-> 0],
       computational_config |-> [gpu_ids |-> <<0>>],
       match_template_result |->
           [key \in ResultKeys |->
               IF key = "allow_file_overwrite" THEN flag
               ELSE Path(dirs[key], TemplateFile(key))]] :
      flag \in BOOLEAN,
      dirs \in [ResultKeys \ {"allow_file_overwrite"} -> {OutputDir, TemplateDir}] }

RefineTemplates ==
    { [kind |-> "refine",
       template_volume_path |-> None,
       particle_stack |-> [df_path |-> None],
       computational_config |-> [gpu_ids |-> <<0>>]] }

ConsTemplates ==
    { [kind |-> "constrained",
       template_volume_path |-> None,
       particle_stack_reference |-> [df_path |-> None],
       particle_stack_constrained |-> [df_path |-> None],
       computational_config |-> [gpu_ids |-> <<0>>]] }

\* Mutant of create_yaml_for_micrograph: the output paths keep the template's
\* directory.
create_yaml_for_micrograph_KeepDir(tpl, micrograph_path, defocus_1, defocus_2, astigmatism_angle, output_path, gpu_ids) ==
    LET micrograph_basename == SplitDot(micrograph_path)
    IN  [tpl EXCEPT
           !.micrograph_path = Some(micrograph_path),
           !.optics_group = [defocus_u |-> defocus_1, defocus_v |-> defocus_2,
                             astigmatism_angle |-> astigmatism_angle],
           !.computational_config = [gpu_ids |-> gpu_ids],
           !.match_template_result =
               [key \in DOMAIN tpl.match_template_result |->
                   IF key # "allow_file_overwrite"
                   THEN Path(dirname(tpl.match_template_result[key]),
                             micrograph_basename
                               \o basename(tpl.match_template_result[key]))
                   ELSE tpl.match_template_result[key]]]

\* Mutant of create_yaml_for_micrograph: a configuration that already exists
\* at output_path is updated in place instead of the template.
create_yaml_for_micrograph_InPlace(tpl, micrograph_path, defocus_1, defocus_2, astigmatism_angle, output_path, gpu_ids) ==
    LET micrograph_basename == SplitDot(micrograph_path)
        results_dir == dirname(output_path)
        config == IF output_path \in DOMAIN yaml_files
                  THEN yaml_files[output_path].doc ELSE tpl
    IN  [config EXCEPT
           !.micrograph_path = Some(micrograph_path),
           !.optics_group = [defocus_u |-> defocus_1, defocus_v |-> defocus_2,
                             astigmatism_angle |-> astigmatism_angle],
           !.computational_config = [gpu_ids |-> gpu_ids],
           !.match_template_result =
               [key \in DOMAIN config.match_template_result |->
                   IF key # "allow_file_overwrite"
                   THEN Path(results_dir,
                             micrograph_basename
                               \o basename(config.match_template_result[key]))
                   ELSE config.match_template_result[key]]]

\* create_yaml_for_micrograph: the document it dumps to output_path, from
\* the document tpl loaded from template_yaml_path.
create_yaml_for_micrograph(tpl, micrograph_path, defocus_1, defocus_2, astigmatism_angle, output_path, gpu_ids) ==
    LET micrograph_basename == SplitDot(micrograph_path)
        results_dir == dirname(output_path)
    IN  [tpl EXCEPT
           !.micrograph_path = Some(micrograph_path),
           !.optics_group = [defocus_u |-> defocus_1, defocus_v |-> defocus_2,
                             astigmatism_angle |-> astigmatism_angle],
           !.computational_config = [gpu_ids |-> gpu_ids],
           !.match_template_result =
               [key \in DOMAIN tpl.match_template_result |->
                   IF key # "allow_file_overwrite"
                   THEN Path(results_dir,
                             micrograph_basename
                               \o basename(tpl.match_template_result[key]))
                   ELSE tpl.match_template_result[key]]]

\* create_yaml_for_refinement
create_yaml_for_refinement(tpl, match_results_csv, output_yaml_path, template_volume_path, gpu_ids) ==
    [tpl EXCEPT
       !.template_volume_path = Some(template_volume_path),
       !.particle_stack = [df_path |-> Some(match_results_csv)],
       !.computational_config = [gpu_ids |-> gpu_ids]]

\* create_yaml_for_constrained_search
create_yaml_for_constrained_search(tpl, large_results_csv, small_results_csv, output_yaml_path, template_volume_path, gpu_ids) ==
    [tpl EXCEPT
       !.template_volume_path = Some(template_volume_path),
       !.particle_stack_reference = [df_path |-> Some(large_results_csv)],
       !.particle_stack_constrained = [df_path |-> Some(small_results_csv)],
       !.computational_config = [gpu_ids |-> gpu_ids]]

\* The calibration values and device lists of the derivations.
CtfValues == {<<11, 12, 13>>, <<21, 22, 23>>}
GpuLists == {<<0>>, <<0, 1>>}

\* The per-item configuration file of stage st:
\* os.path.join(output_dir, f"{splitext(basename)[0]}_..._config.yaml").
ConfigSuffix(st) ==
    CASE st = "match" -> "_config.yaml"
      [] st = "refine" -> "_refine_config.yaml"
      [] OTHER -> "_constrained_config.yaml"
custom_yaml_path(st, f) == Path(OutputDir, Artifact(SplitExt(f), ConfigSuffix(st)))

\* yaml.dump(config, file): the file at path now holds doc.  The file keeps
\* the inputs it was derived from, how often it was written and whether the
\* last write repeated the inputs of the one before.
DumpYaml(path, doc, inputs) ==
    LET old == path \in DOMAIN yaml_files
        n == IF old THEN yaml_files[path].writes ELSE 0
    IN  /\ n < MaxWrites
        /\ yaml_files' =
             [q \in DOMAIN yaml_files \cup {path} |->
                 IF q = path
                 THEN [doc |-> doc, inputs |-> inputs, writes |-> n + 1,
                       repeated |-> old /\ yaml_files[path].inputs = inputs]
                 ELSE yaml_files[q]]
        /\ UNCHANGED template

\* process_micrograph: "Create custom YAML file for this micrograph".
WriteMatchConfig ==
    /\ template.kind = "match"
    /\ \E f \in NameSet, ctf \in CtfValues, gpu_ids \in GpuLists :
          DumpYaml(custom_yaml_path("match", f),
                   create_yaml_for_micrograph(template, f, ctf[1], ctf[2], ctf[3],
                                              custom_yaml_path("match", f), gpu_ids),
                   [item |-> f, ctf |-> ctf, gpu_ids |-> gpu_ids])
    /\ UNCHANGED <<runVars, exportVars>>

\* process_micrograph_refinement: "Create custom YAML file for refinement".
WriteRefineConfig ==
    /\ template.kind = "refine"
    /\ \E f \in NameSet, gpu_ids \in GpuLists :
          DumpYaml(custom_yaml_path("refine", f),
                   create_yaml_for_refinement(
                       template,
                       Path("match_results", Artifact(SplitExt(f), "_results.csv")),
                       custom_yaml_path("refine", f), "template.mrc", gpu_ids),
                   [item |-> f, ctf |-> <<>>, gpu_ids |-> gpu_ids])
    /\ UNCHANGED <<runVars, exportVars>>

\* process_micrograph_constrained_search: "Create custom YAML file for
\* constrained search".
WriteConsConfig ==
    /\ template.kind = "constrained"
    /\ \E f \in NameSet, gpu_ids \in GpuLists :
          DumpYaml(custom_yaml_path("constrained", f),
                   create_yaml_for_constrained_search(
                       template,
                       Path("large_results", Artifact(SplitExt(f), "_refined_results.csv")),
                       Path("small_results", Artifact(SplitExt(f), "_results.csv")),
                       custom_yaml_path("constrained", f), "template.mrc", gpu_ids),
                   [item |-> f, ctf |-> <<>>, gpu_ids |-> gpu_ids])
    /\ UNCHANGED <<runVars, exportVars>>

\* No orchestrator is running.
NoRun ==
    /\ catalog = {} /\ outdir = {}
    /\ stage = Idle("off") /\ pc = Idle("off") /\ args = Idle(None)
    /\ found = Idle(<<>>) /\ unprocessed = Idle(<<>>)
    /\ micrograph_files = Idle(<<>>)
    /\ start_idx = Idle(None) /\ end_idx = Idle(None)
    /\ idx = Idle(0) /\ successful = Idle(0) /\ status = Idle(None)
    /\ invoked = Idle({}) /\ results = Idle(<<>>)
    /\ hazards = {} /\ error_log_file = "None" /\ log = <<>>
    /\ console = Idle(<<>>) /\ calls = 0

InitConfig ==
    /\ NoRun
    /\ NoExport
    /\ template \in MatchTemplates \cup RefineTemplates \cup ConsTemplates
    /\ yaml_files = <<>>

NextConfig == WriteMatchConfig \/ WriteRefineConfig \/ WriteConsConfig

SpecConfig == InitConfig /\ [][NextConfig]_vars

----------------------------------------------------------------------------
(* One run of one script: any of the three, any micrograph directory, any  *)
(* earlier results in the output directory, array-job or explicit-range    *)
(* arguments.                                                              *)

\* The command lines of the runs: array-job arguments, or explicit bounds
\* (none, one or both), and for refine / constrained maybe --filter-numbers.
RunArgs(st) ==
    LET filters == IF st = "match" THEN {None} ELSE {None, Some({1})}
    IN  [job_idx : {Some(v) : v \in (0 - RunNeg)..RunJob},
         jobs_per_array : {Some(v) : v \in 1..RunPerJob},
         start_idx : {None}, end_idx : {None},
         filter_numbers : filters]
        \cup
        [job_idx : {None}, jobs_per_array : {None},
         start_idx : Opt({0 - RunNeg, 1, MaxIdx}),
         end_idx : Opt({0 - RunNeg, 1, MaxIdx}),
         filter_numbers : filters]

\* The result tables earlier runs of stage st may have left.
EarlierResults(st) ==
    { Artifact(SplitExt(f), TerminalSuffix(st)) : f \in NameSet }

InitRun(st) ==
    /\ stage = [Idle("off") EXCEPT ![1] = st]
    /\ pc = [Idle("off") EXCEPT ![1] = IF st = "constrained" THEN "start" ELSE "discover"]
    /\ catalog \in SUBSET NameSet
    /\ outdir \in SUBSET EarlierResults(st)
    /\ \E a \in RunArgs(st) : args = Idle(a)
    /\ found = Idle(<<>>)
    /\ unprocessed = Idle(<<>>)
    /\ micrograph_files = Idle(<<>>)
    /\ start_idx = Idle(None)
    /\ end_idx = Idle(None)
    /\ idx = Idle(0)
    /\ successful = Idle(0)
    /\ status = Idle(None)
    /\ invoked = Idle({})
    /\ results = Idle(<<>>)
    /\ hazards = MatchFaults \cup RefineFaults \cup ConsFaults
    /\ error_log_file = "None"
    /\ log = <<>>
    /\ console = Idle(<<>>)
    /\ calls = 0
    /\ NoConfig
    /\ NoExport

Init == \E st \in Stages : InitRun(st)

Step(p) ==
    \/ OpenLog(p)
    \/ Discover(p)
    \/ ResumeFilter(p)
    \/ FilterNumbers(p)
    \/ Partition(p)
    \/ MatchItem(p)
    \/ RefineItem(p)
    \/ ConsItem(p)
    \/ EndLoop(p)
    \/ Summary(p)

Next == Step(1)

Spec == Init /\ [][Next]_vars

----------------------------------------------------------------------------
(* An array job of the match script: two instances launched on the same    *)
(* micrograph directory and output directory, each with its own --job-idx  *)
(* and --jobs-per-array, running interleaved.  Only the engine may fail.   *)

ArrayArgs ==
    [job_idx : {Some(v) : v \in (0 - RunNeg)..RunJob},
     jobs_per_array : {Some(v) : v \in 1..RunPerJob},
     start_idx : {None}, end_idx : {None}, filter_numbers : {None}]

InitArray ==
    /\ stage = Idle("match")
    /\ pc = Idle("discover")
    /\ catalog = NameSet
    /\ outdir \in SUBSET EarlierResults("match")
    /\ args \in [Procs -> ArrayArgs]
    /\ found = Idle(<<>>)
    /\ unprocessed = Idle(<<>>)
    /\ micrograph_files = Idle(<<>>)
    /\ start_idx = Idle(None)
    /\ end_idx = Idle(None)
    /\ idx = Idle(0)
    /\ successful = Idle(0)
    /\ status = Idle(None)
    /\ invoked = Idle({})
    /\ results = Idle(<<>>)
    /\ hazards = {"none", "engine_raises"}
    /\ error_log_file = "None"
    /\ log = <<>>
    /\ console = Idle(<<>>)
    /\ calls = 0
    /\ NoConfig
    /\ NoExport

NextArray == \E p \in Procs :
    \/ Discover(p)
    \/ ResumeFilter(p)
    \/ Partition(p)
    \/ MatchItem(p)
    \/ EndLoop(p)
    \/ Summary(p)

SpecArray == InitArray /\ [][NextArray]_vars

----------------------------------------------------------------------------
(* The partitioner on its own: any command line, any list of up to MaxN    *)
(* items (the items are their 0-based positions in the sorted list).       *)

Indices(n) == [k \in 1..n |-> k - 1]

AllArgs ==
    [job_idx : Opt((0 - MaxNeg)..MaxJob),
     jobs_per_array : Opt(0..MaxPerJob),
     start_idx : Opt({0 - MaxNeg, 0, 1, MaxN + 1}),
     end_idx : Opt({0 - MaxNeg, 0, 1, MaxN + 1}),
     filter_numbers : {None}]

InitPart ==
    /\ catalog = {}
    /\ outdir = {}
    /\ stage = Idle("off")
    /\ pc = [Idle("off") EXCEPT ![1] = "partition"]
    /\ \E a \in AllArgs : args = Idle(a)
    /\ \E n \in 0..MaxN :
          /\ found = Idle(Indices(n))
          /\ unprocessed = Idle(Indices(n))
          /\ micrograph_files = Idle(Indices(n))
    /\ start_idx = Idle(None)
    /\ end_idx = Idle(None)
    /\ idx = Idle(0)
    /\ successful = Idle(0)
    /\ status = Idle(None)
    /\ invoked = Idle({})
    /\ results = Idle(<<>>)
    /\ hazards = {}
    /\ error_log_file = "None"
    /\ log = <<>>
    /\ console = Idle(<<>>)
    /\ calls = 0
    /\ NoConfig
    /\ NoExport

NextPart == Partition(1)

SpecPart == InitPart /\ [][NextPart]_vars

----------------------------------------------------------------------------
(* export_relion.py: create_particle_stacks and create_star_file, for one  *)
(* results CSV.  A pixel of the micrograph is named by its position; the   *)
(* padding value is Zero.                                                  *)

MaxSide == 2        \* largest image height / width
MaxBox == 4         \* largest --box-size
MaxRows == 3        \* most rows of the particle table

\* The micrograph paths a table may name, in the order groupby sorts them.
\* Two of them have the same stem in different directories.
AllMicrographs ==
    << [dir |-> "run1", stem |-> "a"],
       [dir |-> "run1", stem |-> "b"],
       [dir |-> "run2", stem |-> "a"] >>
MicrographSet == { AllMicrographs[k] : k \in 1..Len(AllMicrographs) }

\* A row of the table.
Particle(path, x, y) == [micrograph_path |-> path, pos_x_img |-> x, pos_y_img |-> y]

\* df.groupby('micrograph_path'): the paths present, sorted, and the rows
\* of one of them in table order.
GroupKeys(t) ==
    SelectSeq(AllMicrographs,
              LAMBDA m : \E k \in 1..Len(t) : t[k].micrograph_path = m)
GroupRows(t, m) == SelectSeq(t, LAMBDA row : row.micrograph_path = m)

\* Path(micrograph_path).stem + ".mrcs" in output_dir.
StackPath(m) == m.stem

\* mrc.data of micrograph m at row y, column x.
Pixel(m, y, x) == <<m.dir, m.stem, y, x>>
Zero == <<>>

\* "Calculate box boundaries"
half_box(b) == b \div 2
x_start(row, b) == Max(0, row.pos_x_img - half_box(b))
y_start(row, b) == Max(0, row.pos_y_img - half_box(b))
x_end(row, b, sh) == Min(sh[2], row.pos_x_img + half_box(b))
y_end(row, b, sh) == Min(sh[1], row.pos_y_img + half_box(b))

\* "Skip if the box is empty or invalid"
InvalidBox(row, b, sh) ==
    \/ x_start(row, b) >= x_end(row, b, sh)
    \/ y_start(row, b) >= y_end(row, b, sh)

\* padded_img: the box_size x box_size image appended to particle_stack; the
\* clamped region is copied to its top left corner.
padded_img(row, b, sh) ==
    LET copy_height == Min(y_end(row, b, sh) - y_start(row, b), b)
        copy_width == Min(x_end(row, b, sh) - x_start(row, b), b)
    IN  [pos \in (0..(b - 1)) \X (0..(b - 1)) |->
            IF pos[1] < copy_height /\ pos[2] < copy_width
            THEN Pixel(row.micrograph_path,
                       y_start(row, b) + pos[1], x_start(row, b) + pos[2])
            ELSE Zero]

\* create_star_file: the particle rows, group by group; particle_idx is the
\* row's position in its group.
StarRows(t) ==
    LET keys == GroupKeys(t)
        rows(g) == GroupRows(t, keys[g])
        RECURSIVE upto(_)
        upto(g) ==
            IF g = 0 THEN <<>>
            ELSE upto(g - 1) \o
                 [k \in 1..Len(rows(g)) |->
                     [rlnCoordinateX |-> rows(g)[k].pos_x_img,
                      rlnCoordinateY |-> rows(g)[k].pos_y_img,
                      rlnImageName |-> [index |-> k, stack |-> StackPath(keys[g])],
                      rlnMicrographName |-> keys[g]]]
    IN  upto(Len(keys))

\* Where create_particle_stacks is: in step "group" about to open the g-th
\* micrograph, in step "rows" about to handle the r-th row of it, in step
\* "star" about to write particles.star, in step "done" returned.
At(step, g, r) == [step |-> step, g |-> g, r |-> r]

\* "Processing micrograph": load the image, start an empty particle_stack.
OpenMicrograph ==
    /\ xpc.step = "group"
    /\ xpc.g <= Len(GroupKeys(df))
    /\ particle_stack' = <<>>
    /\ stdout' = Append(stdout, "Processing micrograph")
    /\ xpc' = At("rows", xpc.g, 1)
    /\ UNCHANGED <<df, shape, box_size, mrcs, particle_df>>
    /\ UNCHANGED <<runVars, cfgVars>>

\* "Process each particle": one pass of the loop over the group's rows.
ExtractParticle ==
    /\ xpc.step = "rows"
    /\ LET rows == GroupRows(df, GroupKeys(df)[xpc.g])
       IN  /\ xpc.r <= Len(rows)
           /\ IF InvalidBox(rows[xpc.r], box_size, shape)
              THEN /\ stdout' = Append(stdout, "Warning: Invalid box coordinates")
                   /\ UNCHANGED particle_stack
              ELSE /\ particle_stack' =
                         Append(particle_stack, padded_img(rows[xpc.r], box_size, shape))
                   /\ UNCHANGED stdout
    /\ xpc' = At("rows", xpc.g, xpc.r + 1)
    /\ UNCHANGED <<df, shape, box_size, mrcs, particle_df>>
    /\ UNCHANGED <<runVars, cfgVars>>

\* The rows of the group are exhausted: "Save the stack", unless it is empty.
SaveStack ==
    /\ xpc.step = "rows"
    /\ LET m == GroupKeys(df)[xpc.g]
       IN  /\ xpc.r > Len(GroupRows(df, m))
           /\ IF particle_stack = <<>>
              THEN /\ stdout' = Append(stdout, "Warning: No valid particles found")
                   /\ UNCHANGED mrcs
              ELSE \* mrcfile.new(output_path, overwrite=True)
                   /\ mrcs' = [s \in DOMAIN mrcs \cup {StackPath(m)} |->
                                  IF s = StackPath(m) THEN particle_stack ELSE mrcs[s]]
                   /\ UNCHANGED stdout
    /\ xpc' = IF xpc.g < Len(GroupKeys(df))
              THEN At("group", xpc.g + 1, 0) ELSE At("star", 0, 0)
    /\ UNCHANGED <<df, shape, box_size, particle_stack, particle_df>>
    /\ UNCHANGED <<runVars, cfgVars>>

\* "Combine all particle data and create star file".
CreateStarFile ==
    /\ xpc.step = "star"
    /\ particle_df' = Some(StarRows(df))
    /\ stdout' = Append(stdout, "Created star file")
    /\ xpc' = At("done", 0, 0)
    /\ UNCHANGED <<df, shape, box_size, particle_stack, mrcs>>
    /\ UNCHANGED <<runVars, cfgVars>>

NextExport == OpenMicrograph \/ ExtractParticle \/ SaveStack \/ CreateStarFile

\* The start of create_particle_stacks with the table t read from the CSV.
InitExportWith(t, b, sh) ==
    /\ NoRun
    /\ NoConfig
    /\ df = t /\ box_size = b /\ shape = sh
    /\ xpc = At("group", 1, 0)
    /\ particle_stack = <<>>
    /\ mrcs = <<>>
    /\ particle_df = None
    /\ stdout = <<"Found CSV files to process", "Processing CSV file">>

\* One particle anywhere in or around an image of any size, any box size.
InitCrop ==
    \E h \in 1..MaxSide, w \in 1..MaxSide, b \in 1..MaxBox,
       x \in (0 - 1)..(MaxSide + 1), y \in (0 - 1)..(MaxSide + 1),
       m \in MicrographSet :
        InitExportWith(<<Particle(m, x, y)>>, b, <<h, w>>)

SpecCrop == InitCrop /\ [][NextExport]_vars

\* The coordinates of the rows of a whole table: an image corner and a
\* point whose box misses the image.
ExportPoints == {<<0, 0>>, <<0 - (MaxBox + 1), 0>>}

Tables(n) ==
    UNION { [1..k -> { Particle(m, pt[1], pt[2]) : m \in MicrographSet,
                                                   pt \in ExportPoints }] :
            k \in 1..n }

InitExport ==
    \E t \in Tables(MaxRows), b \in 1..MaxBox :
        InitExportWith(t, b, <<MaxSide, MaxSide>>)

SpecExport == InitExport /\ [][NextExport]_vars

----------------------------------------------------------------------------
(* Properties of the partitioner (checked under SpecPart). *)

\* The items of L at the positions S (S an interval of 1..Len(L), or empty).
Picked(L, S) ==
    IF S = {} THEN <<>>
    ELSE LET lo == CHOOSE k \in S : \A m \in S : k <= m
         IN  [k \in 1..Cardinality(S) |-> L[lo + k - 1]]

Selected(p) == pc[p] = "loop"

C3_RangeWithinList ==
    (Selected(1) /\ start_idx[1] # None) =>
        /\ 0 <= Val(start_idx[1])
        /\ Val(start_idx[1]) <= Val(end_idx[1])
        /\ Val(end_idx[1]) <= Len(unprocessed[1])

\* C5: array-job mode applies when both --job-idx and --jobs-per-array are
\* given, whatever --start-idx/--end-idx say; otherwise explicit-range mode
\* when a start or an end is given (missing start 0, missing end the list
\* length); otherwise the whole list is kept.
C5_SelectionMode ==
    Selected(1) =>
        LET a == args[1]
            L == unprocessed[1]
        IN  IF a.job_idx # None /\ a.jobs_per_array # None
            THEN LET s == (Val(a.job_idx) - 1) * Val(a.jobs_per_array)
                     e == Min(s + Val(a.jobs_per_array), Len(L))
                 IN  /\ start_idx[1] = Some(s) /\ end_idx[1] = Some(e)
                     /\ micrograph_files[1] = Picked(L, SlicePositions(L, s, e))
            ELSE IF a.start_idx # None \/ a.end_idx # None
            THEN LET s == IF a.start_idx = None THEN 0 ELSE Val(a.start_idx)
                     e == IF a.end_idx = None THEN Len(L) ELSE Val(a.end_idx)
                 IN  /\ start_idx[1] = Some(s) /\ end_idx[1] = Some(e)
                     /\ micrograph_files[1] = Picked(L, SlicePositions(L, s, e))
            ELSE /\ start_idx[1] = None /\ end_idx[1] = None
                 /\ micrograph_files[1] = L

\* C5 witness: both modes' arguments are given and the array-job slice,
\* not the explicit range, was taken.
C5_Witness ==
    /\ Selected(1)
    /\ ArrayMode(args[1])
    /\ args[1].start_idx = Some(0) /\ args[1].end_idx = Some(1)
    /\ args[1].job_idx = Some(2) /\ args[1].jobs_per_array = Some(2)
    /\ micrograph_files[1] = <<2, 3>>

----------------------------------------------------------------------------
(* Properties of one run (checked under Spec). *)

\* The terminal artifact of item f in the match stage.
MatchResult(f) == Artifact(SplitExt(f), "_results.csv")

\* C1: in the match stage the resume filter keeps exactly the items of the
\* sorted list whose '<item stem>_results.csv' is absent from the output
\* directory, in their order; when every item's artifact is present the
\* list is empty and the run ends (status 0) without invoking the engine.
C1_ResumeFilter ==
    [][ (stage[1] = "match" /\ pc[1] = "filter" /\ pc'[1] # "filter") =>
            LET L == micrograph_files[1]
                kept == SelectSeq(L, LAMBDA f : MatchResult(f) \notin outdir)
            IN  /\ L = Sorted(catalog)
                /\ unprocessed'[1] = kept
                /\ micrograph_files'[1] = kept
                /\ (\A k \in 1..Len(L) : MatchResult(L[k]) \in outdir) =>
                       /\ micrograph_files'[1] = <<>>
                       /\ pc'[1] = "done"
                       /\ status'[1] = Some(0)
                       /\ invoked'[1] = {}
                       /\ outdir' = outdir
      ]_vars

\* C1 witness: of three discovered items the filter dropped the one whose
\* results table exists and kept the other two in order.
C1_Witness ==
    /\ stage[1] = "match" /\ pc[1] = "partition"
    /\ found[1] = AllNames
    /\ outdir = {MatchResult(AllNames[2])}
    /\ unprocessed[1] = <<AllNames[1], AllNames[3]>>

\* C4, as claimed: a requested range [start_idx, end_idx) that holds no
\* index of the list selects nothing, and the run then handles no item and
\* exits with status 0; and no request selects an item whose index is
\* outside [start_idx, end_idx) (no wrapping around from the end).
C4_OutOfRangeSelectsNothing ==
    (pc[1] \in {"loop", "summary", "done"} /\ start_idx[1] # None) =>
        LET L == unprocessed[1]
            inside == { k \in 1..Len(L) :
                          Val(start_idx[1]) < k /\ k <= Val(end_idx[1]) }
        IN  /\ micrograph_files[1] = Picked(L, inside)
            /\ inside = {} =>
                  /\ micrograph_files[1] = <<>>
                  /\ results[1] = <<>>
                  /\ pc[1] = "done" => status[1] = Some(0)

\* C7, as claimed: whatever fails for an item, the item is counted as failed
\* and every later item of the selected range is still attempted; only an
\* operator interrupt (or the log not opening) ends the run early.
C7_NoItemAbortsTheRun ==
    (/\ pc[1] = "done"
     /\ \A k \in 1..Len(results[1]) : results[1][k].ret # "interrupt") =>
        \A k \in 1..Len(micrograph_files[1]) :
            /\ k <= Len(results[1])
            /\ results[1][k].item = micrograph_files[1][k]
            /\ results[1][k].ret \in {"True", "False"}

\* C8, as claimed: in the match stage an item whose calibration file does
\* not yield all three values (no data line, or a field that does not parse)
\* is rejected without the engine, counted failed, the run goes on, and the
\* exit status stays 0.
C8_BadCalibrationIsNonFatal ==
    stage[1] = "match" =>
        \A k \in 1..Len(results[1]) :
            results[1][k].why \in {"ctf_nodata", "ctf_unparsable"} =>
                /\ results[1][k].ret = "False"
                /\ results[1][k].item \notin invoked[1]
                /\ (pc[1] = "done" /\ k = Len(results[1])) =>
                       /\ k = Len(micrograph_files[1])
                       /\ status[1] = Some(0)

\* C9, as claimed: a run that terminates (not killed by an interrupt) exits
\* with status 1 exactly when discovery found no file or the constrained
\* script could not open its log, and with status 0 otherwise.
C9_ExitStatus ==
    (pc[1] = "done" /\ status[1] # ExitInterrupted) =>
        LET no_log == stage[1] = "constrained" /\ error_log_file = "None"
        IN  IF no_log \/ catalog = {}
            THEN status[1] = Some(1)
            ELSE status[1] = Some(0)

\* C10, as claimed: after an operator interrupt in the constrained loop the
\* durable log holds the final summary of the successes and failures counted
\* so far, and has been closed, when the process exits.
C10_InterruptLogsSummary ==
    (/\ stage[1] = "constrained"
     /\ pc[1] = "done"
     /\ \E k \in 1..Len(results[1]) : results[1][k].ret = "interrupt") =>
        /\ error_log_file = "closed"
        /\ \E k \in 1..Len(log) :
              /\ log[k].msg.text = SummaryText("constrained")
              /\ log[k].msg.a = successful[1]
              /\ log[k].msg.b = Len(micrograph_files[1])

----------------------------------------------------------------------------
(* Properties of an array job (checked under SpecArray). *)

Items(L) == { L[k] : k \in 1..Len(L) }

\* C6: instances in array-job mode with the same jobs_per_array, distinct
\* job indices >= 1 and the same resume-filtered list select disjoint
\* items, and the engine is invoked for no item by both.
C6_ArrayJobsDisjoint ==
    \A p \in Procs : \A q \in Procs \ {p} :
        (/\ pc[p] \in {"loop", "summary", "done"}
         /\ pc[q] \in {"loop", "summary", "done"}
         /\ start_idx[p] # None /\ start_idx[q] # None
         /\ args[p].jobs_per_array = args[q].jobs_per_array
         /\ args[p].job_idx # args[q].job_idx
         /\ Val(args[p].job_idx) >= 1 /\ Val(args[q].job_idx) >= 1
         /\ unprocessed[p] = unprocessed[q]) =>
            /\ Items(micrograph_files[p]) \cap Items(micrograph_files[q]) = {}
            /\ invoked[p] \cap invoked[q] = {}

\* C6 witness: jobs 1 and 2 of one array, one item each from the same
\* list, have both run the engine.
C6_Witness ==
    /\ pc[1] = "done" /\ pc[2] = "done"
    /\ args[1].jobs_per_array = Some(1) /\ args[2].jobs_per_array = Some(1)
    /\ args[1].job_idx = Some(1) /\ args[2].job_idx = Some(2)
    /\ unprocessed[1] = unprocessed[2]
    /\ invoked[1] # {} /\ invoked[2] # {}

----------------------------------------------------------------------------
(* Properties of the two sinks of the constrained script (checked under    *)
(* Spec).                                                                  *)

\* The message by which process_micrograph_constrained_search reports that
\* it returns False for the reason why.
FailureReport(why) ==
    CASE why = "no_number" -> "Could not extract micrograph number"
      [] why = "large_absent" -> "Large particle results not found"
      [] why = "small_absent" -> "Small particle results not found"
      [] why = "large_empty" -> "No large particle matches"
      [] why = "volume_absent" -> "FILE NOT FOUND ERROR"
      [] why = "small_empty" -> "VALUE ERROR"
      [] why = "import_error" -> "IMPORT ERROR"
      [] why = "not_writable" -> "PERMISSION ERROR"
      [] OTHER -> "UNEXPECTED ERROR"

OnConsole(p, text) == \E k \in 1..Len(console[p]) : console[p][k].text = text
InLog(text) == \E k \in 1..Len(log) : log[k].msg.text = text

\* C11, as claimed: in the constrained stage the reason of every item that
\* ended as failed is both on the console and in the durable log.
C11_FailureOnBothSinks ==
    stage[1] = "constrained" =>
        \A k \in 1..Len(results[1]) :
            results[1][k].ret = "False" =>
                /\ OnConsole(1, FailureReport(results[1][k].why))
                /\ InLog(FailureReport(results[1][k].why))

----------------------------------------------------------------------------
(* Properties of the counts main() reports (checked under Spec). *)

\* The positions of the results that returned ret.
Returned(p, ret) == { k \in 1..Len(results[p]) : results[p][k].ret = ret }

\* C12: the summary main() prints reports as successes the number of items
\* whose processing returned True and as total the length of the selected
\* range; when the loop handled every item of the range (always, in the
\* match and refine scripts) successes plus failures is that total.
C12_SummaryCounts ==
    \A k \in 1..Len(console[1]) :
        console[1][k].text = SummaryText(stage[1]) =>
            /\ console[1][k].a = Cardinality(Returned(1, "True"))
            /\ console[1][k].a = successful[1]
            /\ console[1][k].b = Len(micrograph_files[1])
            /\ micrograph_files[1] = SelectFiles(unprocessed[1], args[1])
            /\ (stage[1] \in {"match", "refine"}
                  \/ Returned(1, "raise") \cup Returned(1, "interrupt") = {}) =>
                   /\ Len(results[1]) = console[1][k].b
                   /\ Cardinality(Returned(1, "True"))
                        + Cardinality(Returned(1, "False")) = console[1][k].b

\* C12 witness: three items found, one already has its results table, no
\* job or range arguments; of the two handled one lacks its calibration
\* file: the summary says 1 out of 2.
C12_Witness ==
    /\ stage[1] = "match" /\ pc[1] = "done"
    /\ Len(found[1]) = 3 /\ Len(unprocessed[1]) = 2
    /\ ~ArrayMode(args[1]) /\ ~RangeMode(args[1])
    /\ {results[1][k].why : k \in 1..Len(results[1])} = {"ok", "ctf_absent"}
    /\ console[1][Len(console[1])] = Msg(SummaryText("match"), 1, 2)

----------------------------------------------------------------------------
(* Properties of the configuration writers (checked under SpecConfig). *)

\* The output-path keys of a match configuration.
PathKeys(doc) == DOMAIN doc.match_template_result \ {"allow_file_overwrite"}

\* C13: writing an item's configuration again from the same template and
\* the same item inputs leaves the same document in the file; its output
\* paths carry the item prefix once, and the template is not modified.
C13_DerivationIdempotent ==
    [][ \A path \in DOMAIN yaml_files :
          (/\ path \in DOMAIN yaml_files'
           /\ yaml_files'[path].writes = yaml_files[path].writes + 1
           /\ yaml_files'[path].inputs = yaml_files[path].inputs) =>
              /\ yaml_files'[path].doc = yaml_files[path].doc
              /\ template' = template
              /\ template.kind = "match" =>
                    \A key \in PathKeys(template) :
                        basename(yaml_files'[path].doc.match_template_result[key])
                          = SplitDot(yaml_files[path].inputs.item)
                              \o basename(template.match_template_result[key])
      ]_vars

\* C13 witness: a match configuration was written twice from the same inputs.
C13_Witness ==
    \E path \in DOMAIN yaml_files :
        /\ template.kind = "match"
        /\ yaml_files[path].writes = 2
        /\ yaml_files[path].repeated

\* C14, as claimed: in a match configuration every key of the output group
\* but allow_file_overwrite keeps the directory the template gives it and
\* has its file name prefixed with the item's base name;
\* allow_file_overwrite is as in the template.
C14_OnlyFilenameRewritten ==
    template.kind = "match" =>
        \A path \in DOMAIN yaml_files :
            LET doc == yaml_files[path].doc
                f == yaml_files[path].inputs.item
            IN  /\ \A key \in PathKeys(template) :
                      /\ dirname(doc.match_template_result[key])
                           = dirname(template.match_template_result[key])
                      /\ basename(doc.match_template_result[key])
                           = SplitDot(f) \o basename(template.match_template_result[key])
                /\ doc.match_template_result["allow_file_overwrite"]
                     = template.match_template_result["allow_file_overwrite"]

\* C14: in a match configuration every key of the output group but
\* allow_file_overwrite names, in the directory of the configuration file
\* (the output directory), the template's file name prefixed with the part
\* of the item's file name before its first dot; allow_file_overwrite is as
\* in the template.
C14_OutputPathRewriting ==
    template.kind = "match" =>
        \A path \in DOMAIN yaml_files :
            LET doc == yaml_files[path].doc
                f == yaml_files[path].inputs.item
            IN  /\ DOMAIN doc.match_template_result = DOMAIN template.match_template_result
                /\ \A key \in PathKeys(template) :
                      /\ dirname(doc.match_template_result[key]) = dirname(path)
                      /\ basename(doc.match_template_result[key])
                           = SplitDot(f) \o basename(template.match_template_result[key])
                /\ doc.match_template_result["allow_file_overwrite"]
                     = template.match_template_result["allow_file_overwrite"]

\* C14 witness: a match configuration derived from a template whose output
\* paths lie in another directory than the output directory.
C14_Witness ==
    /\ template.kind = "match"
    /\ \A key \in PathKeys(template) :
          dirname(template.match_template_result[key]) = TemplateDir
    /\ template.match_template_result["allow_file_overwrite"]
    /\ DOMAIN yaml_files # {}

\* C15, as claimed: the configurations of two distinct items never name the
\* same output path: in a match configuration every output-path field
\* differs between the two items.
C15_NoOutputCollision ==
    \A p \in DOMAIN yaml_files : \A q \in DOMAIN yaml_files \ {p} :
        /\ yaml_files[p].inputs.item # yaml_files[q].inputs.item
        /\ template.kind = "match" =>
              \A key \in PathKeys(template) :
                  yaml_files[p].doc.match_template_result[key]
                    # yaml_files[q].doc.match_template_result[key]

----------------------------------------------------------------------------
(* Properties of the constrained script's engine block (checked under      *)
(* Spec).                                                                  *)

\* C16, as claimed: a failure of the engine block that is none of the four
\* typed errors, wherever it is raised (building the manager included), is
\* logged with every diagnostic field, the item returns False (is counted
\* failed) and the loop goes on to the next item.
C16_EngineErrorDiagnosed ==
    stage[1] = "constrained" =>
        \A k \in 1..Len(results[1]) :
            results[1][k].why \in {"manager_raises", "engine_raises"} =>
                /\ results[1][k].ret = "False"
                /\ \A n \in 1..Len(ConsUnexpectedHead \o ConsUnexpectedTail) :
                      InLog((ConsUnexpectedHead \o ConsUnexpectedTail)[n].msg.text)
                /\ (pc[1] \in {"summary", "done"} /\ k < Len(micrograph_files[1]))
                      => Len(results[1]) > k

----------------------------------------------------------------------------
(* Properties of the durable log (checked under Spec). *)

\* C18: the log only grows: a step keeps every line already written, and
\* adds one timestamped line, flushed to the file, for each log_info or
\* log_error call made on the open log.
C18_LogAppendOnly ==
    [][ /\ Len(log') >= Len(log)
        /\ SubSeq(log', 1, Len(log)) = log
        /\ Len(log') - Len(log) = calls' - calls
        /\ \A k \in (Len(log) + 1)..Len(log') : log'[k].stamp = "Y-m-d H:M:S"
      ]_vars

\* C18 witness: an item was handled with messages for the log only
\* (also_print=False), and all calls so far are in the log.
C18_Witness ==
    /\ stage[1] = "constrained" /\ pc[1] = "loop" /\ idx[1] = 1
    /\ error_log_file = "open"
    /\ InLog("DEBUG: Checking file existence and validity")
    /\ ~OnConsole(1, "DEBUG: Checking file existence and validity")
    /\ Len(log) = calls

----------------------------------------------------------------------------
(* Properties of the flow of the three stages (checked under Spec). *)

\* The table stage st leaves for item f in the output directory.
TerminalArtifact(st, f) == Artifact(SplitExt(f), TerminalSuffix(st))

\* C20, as claimed: in every stage the list handed to the partitioner holds
\* no item whose terminal artifact of that stage is in the output directory,
\* and the engine is never invoked for an item whose terminal artifact is
\* already there.
C20_EveryStageResumes ==
    [][ /\ (pc[1] = "filter" /\ pc'[1] = "partition") =>
              \A k \in 1..Len(micrograph_files'[1]) :
                  TerminalArtifact(stage[1], micrograph_files'[1][k]) \notin outdir
        /\ \A f \in invoked'[1] \ invoked[1] :
              TerminalArtifact(stage[1], f) \notin outdir
      ]_vars

----------------------------------------------------------------------------
(* Properties of the crop extraction (checked under SpecCrop). *)

\* The box of size b centered on the row's coordinate, as the claim reads
\* it: each in-bounds pixel at its place in the box, Zero elsewhere.
CenteredCrop(row, b, sh) ==
    [pos \in (0..(b - 1)) \X (0..(b - 1)) |->
        LET y == row.pos_y_img - half_box(b) + pos[1]
            x == row.pos_x_img - half_box(b) + pos[2]
        IN  IF 0 <= y /\ y < sh[1] /\ 0 <= x /\ x < sh[2]
            THEN Pixel(row.micrograph_path, y, x) ELSE Zero]

\* The centered box holds no pixel of the image.
MissesImage(row, b, sh) ==
    \A pos \in (0..(b - 1)) \X (0..(b - 1)) : CenteredCrop(row, b, sh)[pos] = Zero

\* How often text was printed.
PrintedTimes(text) == Cardinality({k \in 1..Len(stdout) : stdout[k] = text})

\* C17, as claimed: of the rows of the micrograph handled so far, each one
\* whose box meets the image has added its centered, zero-padded crop to
\* the stack, and each one whose clamped region is empty was skipped with a
\* warning and added nothing.
C17_CropCentered ==
    xpc.step = "rows" =>
        LET rows == GroupRows(df, GroupKeys(df)[xpc.g])
            handled == SubSeq(rows, 1, xpc.r - 1)
            kept == SelectSeq(handled, LAMBDA row : ~MissesImage(row, box_size, shape))
        IN  /\ particle_stack =
                  [k \in 1..Len(kept) |-> CenteredCrop(kept[k], box_size, shape)]
            /\ PrintedTimes("Warning: Invalid box coordinates")
                  = Len(handled) - Len(kept)

----------------------------------------------------------------------------
(* Properties of the combined metadata export (checked under SpecExport). *)

\* The table row a star row was made from.
SourceRow(s) == Particle(s.rlnMicrographName, s.rlnCoordinateX, s.rlnCoordinateY)

\* C19, as claimed: once particles.star is written, the image name of each
\* of its rows names a stack that was written and a 1-based index at which
\* that stack holds the crop of the row, and only rows whose crop was
\* accepted are listed.
C19_StarNamesTheCrop ==
    xpc.step = "done" =>
        \A k \in 1..Len(Val(particle_df)) :
            LET s == Val(particle_df)[k]
                name == s.rlnImageName
            IN  /\ ~InvalidBox(SourceRow(s), box_size, shape)
                /\ name.stack \in DOMAIN mrcs
                /\ name.index \in 1..Len(mrcs[name.stack])
                /\ mrcs[name.stack][name.index]
                     = padded_img(SourceRow(s), box_size, shape)

----------------------------------------------------------------------------
(* Properties of the previous-stage tables (checked under Spec). *)

\* The reasons that say a previous-stage table of the item is missing or
\* holds no row.
TableMissingOrEmpty ==
    { "csv_absent", "csv_empty",
      "large_absent", "small_absent", "large_empty", "small_empty",
      "small_no_rows" }

\* C21, as claimed: in the refine and constrained stages an item whose
\* previous-stage table is missing or has no row does not have the engine
\* invoked, returns False (is counted failed), and the loop goes on.
C21_TablesCheckedFirst ==
    stage[1] \in {"refine", "constrained"} =>
        \A k \in 1..Len(results[1]) :
            results[1][k].why \in TableMissingOrEmpty =>
                /\ results[1][k].item \notin invoked[1]
                /\ results[1][k].ret = "False"
                /\ (pc[1] \in {"summary", "done"} /\ k < Len(micrograph_files[1]))
                      => Len(results[1]) > k

----------------------------------------------------------------------------
(* Two match instances on one output directory (checked under SpecArray). *)

\* C22: whatever the other instance has done, an instance that has an item
\* left in its range (one whose name carries a micrograph number) can invoke
\* the engine for it: no lock, lease or reservation stands between the
\* resume filter and the engine, so an item that is in both instances'
\* ranges is processed by both.
C22_NothingExcludesDoubleProcessing ==
    \A p \in Procs :
        (/\ stage[p] = "match" /\ pc[p] = "loop"
         /\ idx[p] < Len(micrograph_files[p])
         /\ extract_micrograph_number(micrograph_files[p][idx[p] + 1]) # None)
            => ENABLED (MatchItem(p) /\ micrograph_files[p][idx[p] + 1] \in invoked'[p])

\* The two instances evaluated the resume filter on different artifact sets
\* and both invoked the engine for one item.
C22_Witness ==
    /\ unprocessed[1] # unprocessed[2]
    /\ invoked[1] \cap invoked[2] # {}

----------------------------------------------------------------------------
(* The match stage's per-item status and its terminal artifact (checked   *)
(* under Spec).                                                            *)

\* What the resume filter of a later run over the same inputs selects.
LaterRunSelects == Items(unprocessed_micrographs(found[1], outdir))

\* C23, as claimed: in the match stage an item reported successful has its
\* '<stem>_results.csv' in the output directory and is skipped by a later
\* run, and an item reported failed has no such artifact and is selected
\* again by a later run.
C23_StatusIsTheArtifact ==
    stage[1] = "match" =>
        \A k \in 1..Len(results[1]) :
            LET f == results[1][k].item
            IN  /\ results[1][k].ret = "True" =>
                      /\ Artifact(SplitExt(f), "_results.csv") \in outdir
                      /\ f \notin LaterRunSelects
                /\ results[1][k].ret = "False" =>
                      /\ Artifact(SplitExt(f), "_results.csv") \notin outdir
                      /\ f \in LaterRunSelects

----------------------------------------------------------------------------
(* The array jobs of one list (checked under SpecPart). *)

\* The items job j selects from list L under the command line a.
JobRange(L, a, j) == Items(SelectFiles(L, [a EXCEPT !.job_idx = Some(j)]))

\* The number of jobs that n items need at k items per job: ceil(n / k).
JobsNeeded(n, k) == (n + k - 1) \div k

\* C24: in array-job mode over a list of n items with k >= 1 items per job,
\* every item is in the range of exactly one of the jobs 1..ceil(n/k), every
\* job index above ceil(n/k) selects nothing, and the instance that ran took
\* the range of its job index.
C24_ArrayJobsPartition ==
    (/\ Selected(1) /\ ArrayMode(args[1])
     /\ Val(args[1].jobs_per_array) >= 1) =>
        LET L == unprocessed[1]
            n == Len(L)
            k == Val(args[1].jobs_per_array)
            jobs == JobsNeeded(n, k)
        IN  /\ \A i \in 1..n :
                  Cardinality({ j \in 1..jobs : L[i] \in JobRange(L, args[1], j) }) = 1
            /\ \A j \in (jobs + 1)..(jobs + MaxJob) : JobRange(L, args[1], j) = {}
            /\ Val(args[1].job_idx) >= 1 =>
                  Items(micrograph_files[1]) = JobRange(L, args[1], Val(args[1].job_idx))

\* C24 witness: 7 items at 2 per job; job 4, the last one needed, has taken
\* the one item left.
C24_Witness ==
    /\ Selected(1) /\ ArrayMode(args[1])
    /\ Len(unprocessed[1]) = 7
    /\ args[1].jobs_per_array = Some(2)
    /\ args[1].job_idx = Some(JobsNeeded(7, 2))
    /\ micrograph_files[1] = <<6>>

----------------------------------------------------------------------------
(* The log file of the constrained script after its cleanup (checked under *)
(* Spec).                                                                  *)

\* C25: in the constrained script, once the cleanup block has closed the log
\* file no log_info or log_error call reaches the file handle, and the file
\* is never written or opened again: whatever runs after the close only
\* prints.
C25_NoLogCallAfterClose ==
    [][ error_log_file = "closed" =>
            /\ calls' = calls
            /\ log' = log
            /\ error_log_file' = "closed"
      ]_vars

\* C25 witness: the operator interrupted the loop, the cleanup closed the
\* log, and main() went on to print its summary and return.
C25_Witness ==
    /\ stage[1] = "constrained" /\ pc[1] = "done" /\ status[1] = Some(0)
    /\ error_log_file = "closed"
    /\ Len(results[1]) > 0
    /\ results[1][Len(results[1])].ret = "interrupt"
    /\ OnConsole(1, SummaryText("constrained"))
    /\ InLog("Processing interrupted by user (Ctrl+C)")

====
